---- MODULE Spec2Model ----
(***************************************************************************)
(* Model of pennylane_lightning_gpu/lightning_gpu.py: the LightningGPU     *)
(* device (state preparation, gate replay, observable evaluation) and its  *)
(* adjoint_jacobian driver (validation, trainable-parameter filtering,     *)
(* observable batching, term aggregation).                                 *)
(*                                                                         *)
(* The device-resident state vector is held as a term: the last full       *)
(* initialisation and the backend kernels applied since, in order.  Two    *)
(* terms are equal exactly when the same backend calls were made, so      *)
(* "the state is unchanged" means "no backend call mutated it".           *)
(***************************************************************************)
EXTENDS Integers, Sequences, FiniteSets, TLC

VARIABLES
    cfg,      \* constructor arguments kept by the device (__init__)
    gpu,      \* self._gpu_state: the device-resident state vector
    host,     \* self._state / self._pre_rotated_state: the host mirror
    tape,     \* the caller's tape handed to adjoint_jacobian
    kwargs,   \* starting_state and use_device_state of that request
    oplist,   \* the list object the caller handed to apply, after the call
    ret,      \* what the last call returned or raised
    log,      \* backend and device events of the last call, in order
    pre       \* device state and arguments at entry of the last call

vars == <<cfg, gpu, host, tape, kwargs, oplist, ret, log, pre>>

---------------------------------------------------------------------------
(* Bounds of the model.                                                    *)

MaxOps == 2        \* longest operation list (tape or apply argument)
MaxObs == 2        \* most measurements on a tape
MaxTerms == 3      \* most terms of one Hamiltonian observable
MaxK == 2          \* largest integer batch_obs
MaxDevices == 2    \* most devices DevPool reports
MaxHist == 1       \* most kernels applied since the last initialisation
MaxWires == 2      \* most wires of a device
MaxFault == 2      \* latest engine invocation of a request that may raise
WireSpan == 2      \* observable widths this far on either side of the dense limit

---------------------------------------------------------------------------
(* Python and numpy helpers, computed as the interpreter computes them.    *)

Min(a, b) == IF a < b THEN a ELSE b

\* s[a:b] for 0 <= a, 0 <= b: Python clamps both ends to len(s).
Slice(s, a, b) ==
    LET lo == Min(a, Len(s))
        hi == Min(b, Len(s))
    IN  IF hi <= lo THEN <<>> ELSE SubSeq(s, lo + 1, hi)

\* list(range(0, stop, step)) for step > 0 (step = 0 raises ValueError)
RECURSIVE RangeFrom(_, _, _)
RangeFrom(start, stop, step) ==
    IF start >= stop THEN <<>>
    ELSE <<start>> \o RangeFrom(start + step, stop, step)

\* sorted(S) for a finite set of integers
RECURSIVE Sorted(_)
Sorted(S) ==
    IF S = {} THEN <<>>
    ELSE LET m == CHOOSE x \in S : \A y \in S : x <= y
         IN  <<m>> \o Sorted(S \ {m})

RECURSIVE Flatten(_)
Flatten(ss) == IF ss = <<>> THEN <<>> ELSE Head(ss) \o Flatten(Tail(ss))

\* the set of sequences over S of length 0..n
SeqsUpTo(S, n) == UNION {[1..m -> S] : m \in 0..n}

RECURSIVE Pow2(_)
Pow2(n) == IF n = 0 THEN 1 ELSE 2 * Pow2(n - 1)

---------------------------------------------------------------------------
(* Operations, observables, measurements, tapes.                           *)

\* an operation: its class name and, for a state preparation, the state it
\* prepares ("b0", "b1": a computational basis state; "psi": a normalised
\* vector over all wires)
Op(name, arg) == [name |-> name, arg |-> arg]

\* isinstance(op, (QubitStateVector, BasisState))
IsStatePrep(op) == op.name \in {"QubitStateVector", "BasisState"}

\* op.num_params of the operation classes used here
NumParams(op) ==
    CASE op.name \in {"Rot", "CRot"} -> 3
      [] op.name \in {"RX", "BasisState", "QubitStateVector"} -> 1
      [] OTHER -> 0

\* an observable: class name, number of Hamiltonian terms, the
\* non-identity factors of a Tensor, and the number of wires it acts on
Obs(name, terms, parts, nw) ==
    [name |-> name, terms |-> terms, parts |-> parts, nw |-> nw]

NoObs == Obs("None", 0, <<>>, 0)

\* a measurement process: return type and observable
Meas(rt, o) == [rt |-> rt, obs |-> o]

\* number of numeric parameters an observable contributes to the tape
\* (Hamiltonian coefficients, the Hermitian matrix, the Projector state)
RECURSIVE PartParams(_)
PartParams(parts) ==
    IF parts = <<>> THEN 0
    ELSE (IF Head(parts) \in {"Projector", "Hermitian"} THEN 1 ELSE 0)
         + PartParams(Tail(parts))

ObsParams(o) ==
    CASE o.name = "Hamiltonian" -> o.terms
      [] o.name \in {"Hermitian", "Projector"} -> 1
      [] o.name = "Tensor" -> PartParams(o.parts)
      [] OTHER -> 0

---------------------------------------------------------------------------
(* The state vector on the device and its host mirror.                     *)

\* a state initialised to `init` with no kernel applied since
InitTerm(init) == [init |-> init, hist |-> <<>>]

\* |0...0>
ZeroState == InitTerm("b0")

\* one backend kernel applied in place
Kernel(g, k) == [g EXCEPT !.hist = Append(@, k)]

\* _create_basis_state_default(0): a 2-element array with a 1 at index 0
CreateBasisStateDefault == [shape |-> <<2>>, val |-> ZeroState]

\* [2] * num_wires
TwoPerWire(c) == [i \in 1..c.wires |-> 2]

\* number of elements of an array of this shape
RECURSIVE Product(_)
Product(shape) == IF shape = <<>> THEN 1 ELSE Head(shape) * Product(Tail(shape))

\* a faulty variant of syncD2H: the mirror is never reallocated
SyncD2HInPlace(h, g, c) == [shape |-> h.shape, val |-> g]

\* syncD2H: reallocate the mirror when len(self._state) != 2**num_wires, then
\* copy the device state into it
SyncD2H(h, g, c) ==
    [shape |-> IF h.shape[1] # Pow2(c.wires) THEN TwoPerWire(c) ELSE h.shape,
     val |-> g]

\* apply_cq: Identity is skipped, every other operation runs its kernel
RECURSIVE ApplyCq(_, _)
ApplyCq(ops, g) ==
    IF ops = <<>> THEN g
    ELSE ApplyCq(Tail(ops),
                 IF Head(ops).name = "Identity" THEN g
                 ELSE Kernel(g, Head(ops).name))

\* `tolerance`, 1e-6, in units of 1e-7
Tolerance == 10

\* the rtol that allclose uses when none is passed, 1e-5, in units of 1e-7
DefaultRtol == 100

\* the shape of a named state vector handed to a device of dimension dim:
\* "psi_long" has one amplitude too many
VectorShape(v, dim) == IF v = "psi_long" THEN <<dim + 1>> ELSE <<dim>>

\* | norm(v) - 1 | in units of 1e-7: "psi_near" is off by 5e-6, "psi_far"
\* by 1e-3
NormDeviation(v) ==
    CASE v = "psi_near" -> 50
      [] v = "psi_far" -> 10000
      [] OTHER -> 0

\* _get_batch_size; 0 stands for None
GetBatchSize(shape, dim) ==
    IF Len(shape) > 1 \/ Product(shape) > dim THEN Product(shape) \div dim
    ELSE 0

\* state.shape in [(dim,), (batch_size, dim)]
ShapeAccepted(shape, dim) ==
    shape = <<dim>> \/ shape = <<GetBatchSize(shape, dim), dim>>

\* a faulty variant of the norm test: any norm passes
AllcloseAlways(deviation, atol) == TRUE

\* allclose(norm, 1.0, atol=atol): |norm - 1.0| <= atol + rtol * |1.0|
Allclose(deviation, atol) == deviation <= atol + DefaultRtol * 1

\* _apply_state_vector_GPU over all wires (shape and norm are tested, then
\* the host mirror is replaced and copied to the device) and
\* _apply_basis_state_GPU (setZeroState, then setBasisState on the device
\* alone)
PrepOutcome(op, g, h, c) ==
    IF op.name = "QubitStateVector"
    THEN IF ~ShapeAccepted(VectorShape(op.arg, Pow2(c.wires)), Pow2(c.wires))
         THEN [status |-> "ValueError", gpu |-> g, host |-> h]
         ELSE IF ~Allclose(NormDeviation(op.arg), Tolerance)
         THEN [status |-> "ValueError", gpu |-> g, host |-> h]
         ELSE [status |-> "ok",
               gpu |-> InitTerm(op.arg),
               host |-> [shape |-> TwoPerWire(c), val |-> InitTerm(op.arg)]]
    ELSE [status |-> "ok", gpu |-> InitTerm(op.arg), host |-> h]

\* the state property: syncD2H, then the mirror reshaped to (2**n,)
StateOutcome(g, h, c) ==
    LET h1 == SyncD2H(h, g, c)
    IN  IF Product(h1.shape) = Pow2(c.wires)
        THEN [status |-> "ok", host |-> h1,
              value |-> [shape |-> <<Pow2(c.wires)>>, val |-> h1.val]]
        ELSE [status |-> "ValueError", host |-> h1,
              value |-> [shape |-> <<>>, val |-> h1.val]]

\* the loop of apply that rejects a state preparation among the operations
\* left after the leading one was consumed
Misplaced(rest) == \E i \in 1..Len(rest) : IsStatePrep(rest[i])

\* what is left of the caller's list once apply consumed its first element
Consume(ops) == Tail(ops)

\* apply(operations): the result, the device state, the host mirror, the
\* caller's list and the events, as the call leaves them
ApplyOutcome(ops, g, h, c) ==
    LET prepped == ops # <<>> /\ IsStatePrep(ops[1])
        p == IF prepped THEN PrepOutcome(ops[1], g, h, c)
             ELSE [status |-> "ok", gpu |-> g, host |-> h]
        rest == IF prepped THEN Consume(ops) ELSE ops
        ev == IF prepped THEN <<"prep">> ELSE <<>>
        g2 == ApplyCq(rest, p.gpu)
    IN  IF p.status # "ok"
        THEN [status |-> p.status, gpu |-> g, host |-> h,
              oplist |-> ops, log |-> <<>>]
        ELSE IF Misplaced(rest)
        THEN [status |-> "DeviceError", gpu |-> p.gpu, host |-> p.host,
              oplist |-> rest, log |-> ev]
        ELSE [status |-> "ok", gpu |-> g2,
              host |-> IF c.sync THEN SyncD2H(p.host, g2, c) ELSE p.host,
              oplist |-> rest,
              log |-> ev \o <<"replay">>
                        \o (IF c.sync THEN <<"syncD2H">> ELSE <<>>)]

\* reset(): the mirror is rebuilt and the device is set to |0...0>
ResetOutcome(g, h, c) == [gpu |-> ZeroState, host |-> CreateBasisStateDefault]

---------------------------------------------------------------------------
(* Observable evaluation: sample, expval, var.                             *)

\* wire count above which expval decomposes a Hamiltonian into Pauli words
HamiltonianDenseLimit == 13

\* a faulty variant of the crossover: the limit itself already decomposes
UsesPauliWordsAtLimit(o) == o.nw >= HamiltonianDenseLimit

\* `len(device_wires) > 13`
UsesPauliWords(o) == o.nw > HamiltonianDenseLimit

RECURSIVE PartGates(_)

\* observable.diagonalizing_gates() of the observable classes used here
DiagGates(o) ==
    CASE o.name = "PauliX" -> <<Op("Hadamard", "")>>
      [] o.name = "PauliY" -> <<Op("PauliZ", ""), Op("S", ""), Op("Hadamard", "")>>
      [] o.name = "Hadamard" -> <<Op("RY", "")>>
      [] o.name = "Hermitian" -> <<Op("QubitUnitary", "")>>
      [] o.name = "Tensor" -> PartGates(o.parts)
      [] OTHER -> <<>>

PartGates(parts) ==
    IF parts = <<>> THEN <<>>
    ELSE DiagGates(Obs(Head(parts), 0, <<>>, 1)) \o PartGates(Tail(parts))

\* a weighted sum has no diagonalizing gates: asking for them raises
HasDiagGates(o) == o.name \notin {"Hamiltonian", "SparseHamiltonian"}

\* sample(observable): every observable but PauliZ has its diagonalizing
\* gates applied to the device state before the samples are drawn
SampleOutcome(o, g) ==
    IF o.name = "PauliZ" THEN [status |-> "ok", gpu |-> g]
    ELSE IF ~HasDiagGates(o)
    THEN [status |-> "DiagGatesUndefinedError", gpu |-> g]
    ELSE [status |-> "ok", gpu |-> ApplyCq(DiagGates(o), g)]

\* expval(observable): the path taken, and the device state and host
\* mirror the call leaves
ExpvalOutcome(o, g, h, c) ==
    IF o.name \in {"Projector", "Hermitian"}
    THEN LET h1 == SyncD2H(h, g, c)
             s == SampleOutcome(o, g)
         IN  IF c.analytic
             THEN [status |-> "ok", gpu |-> g, host |-> h1, value |-> "host"]
             ELSE [status |-> s.status, gpu |-> s.gpu, host |-> h1,
                   value |-> "samples"]
    ELSE IF ~c.analytic
    THEN LET s == SampleOutcome(o, g)
         IN  [status |-> s.status, gpu |-> s.gpu, host |-> h,
              value |-> "samples"]
    ELSE [status |-> "ok", gpu |-> g, host |-> h,
          value |-> CASE o.name = "SparseHamiltonian" -> "csr"
                      [] o.name = "Hamiltonian" /\ UsesPauliWords(o)
                           -> "pauli_words"
                      [] o.name = "Hamiltonian" -> "dense"
                      [] OTHER -> "named"]

\* var(observable)
VarOutcome(o, g, h, c) ==
    IF ~c.analytic
    THEN LET s == SampleOutcome(o, g)
         IN  [status |-> s.status, gpu |-> s.gpu, host |-> h,
              value |-> "samples"]
    ELSE [status |-> "ok", gpu |-> g, host |-> h, value |-> "sqr_minus_mean2"]

---------------------------------------------------------------------------
(* adjoint_jacobian: validation.                                           *)

IsUnsupportedObs(name) == name \in {"Projector", "Hermitian"}

\* a faulty variant of the per-measurement loop: tensor products are not
\* looked into
HasUnsupportedObsFlat(o) == IsUnsupportedObs(o.name)

\* the per-measurement loop of _check_adjdiff_supported_measurements
HasUnsupportedObs(o) ==
    IF o.name # "Tensor" THEN IsUnsupportedObs(o.name)
    ELSE \E k \in 1..Len(o.parts) : IsUnsupportedObs(o.parts[k])

\* _check_adjdiff_supported_measurements: "None", "Expectation", or the
\* error it raises
CheckMeasurements(ms) ==
    IF Len(ms) = 0 THEN "None"
    ELSE IF Len(ms) = 1 /\ ms[1].rt = "State" THEN "QuantumFunctionError"
    ELSE IF ~(\A i \in 1..Len(ms) : ms[i].rt = "Expectation")
    THEN "QuantumFunctionError"
    ELSE IF \E i \in 1..Len(ms) : HasUnsupportedObs(ms[i].obs)
    THEN "QuantumFunctionError"
    ELSE "Expectation"

\* a faulty variant of the operations check: CRot is taken for a Rot
SupportedOperationsRotFamily(ops) ==
    \A i \in 1..Len(ops) :
        ~(NumParams(ops[i]) > 1 /\ ops[i].name \notin {"Rot", "CRot"})

\* _check_adjdiff_supported_operations passes
SupportedOperations(ops) ==
    \A i \in 1..Len(ops) : ~(NumParams(ops[i]) > 1 /\ ops[i].name # "Rot")

---------------------------------------------------------------------------
(* adjoint_jacobian: the state the engine is run on.                       *)

\* statistics(): the measurements are evaluated in tape order
RECURSIVE Evaluate(_, _, _, _)
Evaluate(ms, g, h, c) ==
    IF ms = <<>> THEN [status |-> "ok", gpu |-> g, host |-> h]
    ELSE LET e == ExpvalOutcome(Head(ms).obs, g, h, c)
         IN  IF e.status # "ok"
             THEN [status |-> e.status, gpu |-> e.gpu, host |-> e.host]
             ELSE Evaluate(Tail(ms), e.gpu, e.host, c)

\* self.execute(tape): apply on a fresh list of the tape's operations
\* (tape.operations builds one per access), then statistics
ExecuteOutcome(t, g, h, c) ==
    LET a == ApplyOutcome(t.ops, g, h, c)
        h1 == IF c.sync THEN SyncD2H(a.host, a.gpu, c) ELSE a.host
        e == Evaluate(t.meas, a.gpu, h1, c)
    IN  IF a.status # "ok"
        THEN [status |-> a.status, gpu |-> a.gpu, host |-> a.host, log |-> a.log]
        ELSE [status |-> e.status, gpu |-> e.gpu, host |-> e.host,
              log |-> a.log \o <<"statistics">>]

\* "Initialization of state": a given starting_state or use_device_state
\* skips the replay, otherwise reset() and execute(tape)
StatePhase(t, kw, g, h, c) ==
    IF kw.starting_state # "None" \/ kw.use_device_state
    THEN [status |-> "ok", gpu |-> g, host |-> h, log |-> <<>>]
    ELSE LET r == ResetOutcome(g, h, c)
             x == ExecuteOutcome(t, r.gpu, r.host, c)
         IN  [x EXCEPT !.log = <<"reset">> \o @]

---------------------------------------------------------------------------
(* adjoint_jacobian: serialisation and trainable-parameter bookkeeping.    *)

\* the owner of every tape parameter, in tape order: operations first,
\* then the observables of the measurements
RECURSIVE OpOwners(_)
OpOwners(ops) ==
    IF ops = <<>> THEN <<>>
    ELSE [j \in 1..NumParams(Head(ops)) |->
              [operation |-> TRUE, prep |-> IsStatePrep(Head(ops))]]
         \o OpOwners(Tail(ops))

RECURSIVE ObsOwners(_)
ObsOwners(ms) ==
    IF ms = <<>> THEN <<>>
    ELSE [j \in 1..ObsParams(Head(ms).obs) |->
              [operation |-> FALSE, prep |-> FALSE]]
         \o ObsOwners(Tail(ms))

Owners(t) == OpOwners(t.ops) \o ObsOwners(t.meas)

\* tape.get_operation(idx): the owner of the idx-th trainable parameter
GetOperation(t, idx) == Owners(t)[Sorted(t.trainable)[idx + 1] + 1]

\* a faulty variant of the filter: state preparations are kept
DifferentiableAnyOperation(owner) == owner.operation

\* a trainable position is kept when its owner is an Operation and no
\* state preparation
Differentiable(owner) == owner.operation /\ ~owner.prep

\* the loop over enumerate(trainable_params) that builds tp_shift
RECURSIVE TpLoop(_, _, _)
TpLoop(t, tps, op_idx) ==
    IF op_idx >= Len(tps) THEN <<>>
    ELSE (IF Differentiable(GetOperation(t, op_idx))
          THEN <<tps[op_idx + 1]>> ELSE <<>>)
         \o TpLoop(t, tps, op_idx + 1)

\* use_sp as _serialize_ops reports it: the tape's first operation is a
\* state preparation
UseSp(t) == t.ops # <<>> /\ IsStatePrep(t.ops[1])

\* tp_shift as handed to the engine
TpShift(t) ==
    LET kept == TpLoop(t, Sorted(t.trainable), 0)
    IN  IF UseSp(t) THEN [i \in 1..Len(kept) |-> kept[i] - 1] ELSE kept

\* all_params after the loop
AllParams(t) == Len(Sorted(t.trainable))

\* rows one observable expands to in the serialised list
TermCount(o) == IF o.name = "Hamiltonian" THEN o.terms ELSE 1

\* obs_offsets of _serialize_observables
RECURSIVE Offsets(_, _)
Offsets(ms, from) ==
    IF ms = <<>> THEN <<from>>
    ELSE <<from>> \o Offsets(Tail(ms), from + TermCount(Head(ms).obs))

\* obs_serialized of _serialize_observables; a serialised observable is
\* named by its place in the flattened term list
ObsSerialized(ms) ==
    LET off == Offsets(ms, 0) IN [j \in 1..off[Len(off)] |-> j]

---------------------------------------------------------------------------
(* adjoint_jacobian: batching over observables, reshape, aggregation.      *)

\* a Jacobian cell is the set of engine contributions summed into it; a
\* contribution is named by the serialised observable and the position
ZeroCell == {}

\* the engine: one row per observable of the call, one cell per position
\* handed over; a row depends on its observable and the positions alone
EngineRows(chunk, tp) ==
    [i \in 1..Len(chunk) |-> [q \in 1..Len(tp) |-> {<<chunk[i], tp[q]>>}]]

\* `if self._batch_obs:`
Truthy(b) == IF b.kind = "bool" THEN b.on ELSE b.k # 0

\* a faulty variant of batch_size: the device count is left out
BatchSizeOneDevice(c, num_obs) ==
    IF c.batch_obs.kind = "bool" THEN num_obs
    ELSE c.batch_obs.k

\* batch_size
BatchSize(c, num_obs) ==
    IF c.batch_obs.kind = "bool" THEN num_obs
    ELSE c.batch_obs.k * c.devices

\* the chunks obs_serialized[chunk : chunk + batch_size] of the loop
Windows(obs, batch_size) ==
    LET starts == RangeFrom(0, Len(obs), batch_size)
    IN  [w \in 1..Len(starts) |->
            Slice(obs, starts[w], starts[w] + batch_size)]

\* jac after the loop: jac.extend(jac_chunk) window after window
Extend(wins, tp) ==
    Flatten([w \in 1..Len(wins) |-> EngineRows(wins[w], tp)])

\* np.array(jac).reshape(-1, ncols), for ncols > 0
Reshape(jac, ncols) ==
    LET flat == Flatten(jac)
    IN  [r \in 1..(Len(flat) \div ncols) |->
            SubSeq(flat, (r - 1) * ncols + 1, r * ncols)]

\* np.sum(rows, axis=0)
SumRows(rows, ncols) ==
    [q \in 1..ncols |-> UNION {rows[i][q] : i \in 1..Len(rows)}]

\* the value assigned to jac_r[idx, :], as numpy sees it: the shape and
\* the cells in row-major order
RowValue(jac, off, idx, ncols) ==
    LET block == Slice(jac, off[idx], off[idx + 1])
    IN  IF off[idx + 1] - off[idx] > 1
        THEN [shape |-> <<ncols>>, cells |-> SumRows(block, ncols)]
        ELSE [shape |-> <<Len(block), ncols>>, cells |-> Flatten(block)]

\* numpy can broadcast a value of this shape into a row of `width` cells
Broadcastable(shape, width) ==
    /\ \A d \in 1..(Len(shape) - 1) : shape[d] = 1
    /\ shape[Len(shape)] \in {1, width}

\* jac_r[idx, :] = value
AssignRow(v, width) ==
    IF v.shape[Len(v.shape)] = width THEN v.cells
    ELSE [q \in 1..width |-> v.cells[1]]

\* the reduction over obs_offsets that fills jac_r
Aggregate(jac, off, ncols, width) ==
    LET n == Len(off) - 1
        val(idx) == RowValue(jac, off, idx, ncols)
    IN  IF \A idx \in 1..n : Broadcastable(val(idx).shape, width)
        THEN [status |-> "ok",
              value |-> [shape |-> <<n, width>>,
                         rows |-> [idx \in 1..n |-> AssignRow(val(idx), width)]]]
        ELSE [status |-> "ValueError",
              value |-> [shape |-> <<>>, rows |-> <<>>]]

NoValue == [shape |-> <<>>, rows |-> <<>>]

\* np.array(0)
ZeroResult == [shape |-> <<>>, rows |-> <<<<ZeroCell>>>>]

\* a faulty variant of the window loop: a window whose engine invocation
\* raises is skipped and the loop goes on
DispatchedAll(wins, f) == wins

\* the windows whose engine invocation is made when invocation number f
\* raises (f = 0: none raises); nothing catches the exception, so the loop
\* ends there
Dispatched(wins, f) == IF f \in 1..Len(wins) THEN SubSeq(wins, 1, f) ELSE wins

\* adjoint_jacobian from the serialisation on: the engine is handed the
\* device state g, `ket` is the local array of that name
Differentiate(t, g, h, c, events, ket, f) ==
    LET obs == ObsSerialized(t.meas)
        off == Offsets(t.meas, 0)
        tp == TpShift(t)
        bs == BatchSize(c, Len(obs))
        batched == Truthy(c.batch_obs)
        wins == IF batched THEN Windows(obs, bs) ELSE <<obs>>
        failed == f \in 1..Len(wins)
        sent == Dispatched(wins, f)
        jac == Extend(IF failed THEN SubSeq(wins, 1, f - 1) ELSE wins, tp)
        agg == Aggregate(Reshape(jac, Len(tp)), off, Len(tp), AllParams(t))
        base == [status |-> "ValueError", at |-> "loop", value |-> NoValue,
                 tp |-> tp, windows |-> <<>>, rows |-> <<>>, ket |-> ket,
                 state |-> g, gpu |-> g, host |-> h, log |-> events]
    IN  IF batched /\ bs = 0 THEN base
        ELSE LET ran == [base EXCEPT !.windows = sent, !.rows = jac,
                           !.log = events \o [w \in 1..Len(sent) |-> "engine"]]
             IN  IF failed
                 THEN [ran EXCEPT !.status = "EngineError", !.at = "engine"]
                 ELSE IF Len(tp) = 0 THEN [ran EXCEPT !.at = "reshape"]
                 ELSE [ran EXCEPT !.status = agg.status, !.value = agg.value,
                                  !.at = IF agg.status = "ok" THEN "return"
                                         ELSE "assign"]

\* a faulty variant of the short-circuit: taken only for a tape without
\* operations
NothingTrainableOnEmptyTape(t) == t.ops = <<>>

\* `if len(tape.trainable_params) == 0`
NothingTrainable(t) == Cardinality(t.trainable) = 0

\* adjoint_jacobian(tape, starting_state, use_device_state), with engine
\* invocation number f raising (f = 0: none raises)
AdjointOutcome(t, kw, g, h, c, f) ==
    LET warned == IF c.analytic THEN <<>> ELSE <<"warn">>
        raise(err, at, g1, h1, events) ==
            [status |-> err, at |-> at, value |-> NoValue, tp |-> <<>>,
             windows |-> <<>>, rows |-> <<>>, ket |-> g1, state |-> g1,
             gpu |-> g1, host |-> h1, log |-> events]
        st == StatePhase(t, kw, g, h, c)
        ket == IF kw.starting_state # "None" THEN InitTerm(kw.starting_state)
               ELSE st.host.val
    IN  IF CheckMeasurements(t.meas) = "QuantumFunctionError"
        THEN raise("QuantumFunctionError", "measurements", g, h, warned)
        ELSE IF NothingTrainable(t)
        THEN [raise("ok", "shortcut", g, h, warned) EXCEPT !.value = ZeroResult]
        ELSE IF ~SupportedOperations(t.ops)
        THEN raise("QuantumFunctionError", "operations", g, h, warned)
        ELSE IF st.status # "ok"
        THEN raise(st.status, "replay", st.gpu, st.host, warned \o st.log)
        ELSE Differentiate(t, st.gpu, st.host, c, warned \o st.log, ket, f)

---------------------------------------------------------------------------
(* Inputs.                                                                 *)

BatchBool(on) == [kind |-> "bool", on |-> on, k |-> 0]
BatchInt(k) == [kind |-> "int", on |-> FALSE, k |-> k]

\* batch_obs: False, True, or a positive integer
BatchPolicies == {BatchBool(FALSE), BatchBool(TRUE)} \cup {BatchInt(k) : k \in 1..MaxK}

Config(wires, sync, analytic, batch_obs, devices) ==
    [wires |-> wires, sync |-> sync, analytic |-> analytic,
     batch_obs |-> batch_obs, devices |-> devices]

Tape(ops, ms, trainable) == [ops |-> ops, meas |-> ms, trainable |-> trainable]

Kwargs(starting_state, use_device_state) ==
    [starting_state |-> starting_state, use_device_state |-> use_device_state]

Expval(o) == Meas("Expectation", o)
PauliZ == Obs("PauliZ", 1, <<>>, 1)
Hamiltonian(terms) == Obs("Hamiltonian", terms, <<>>, 1)
TensorOf(parts) == Obs("Tensor", 1, parts, Len(parts))

\* operations on tapes: a state preparation, a one-parameter gate, Rot,
\* and a gate of several parameters that is no Rot
TapeOps == {Op("BasisState", "b1"), Op("RX", ""), Op("Rot", ""), Op("CRot", "")}

\* measurements adjoint_jacobian supports
SupportedMeas == {Expval(PauliZ)} \cup {Expval(Hamiltonian(n)) : n \in 2..MaxTerms}

\* measurements adjoint_jacobian rejects, alone or beside an expectation
UnsupportedMeas ==
    {Meas("State", NoObs), Meas("Probability", NoObs),
     Expval(Obs("Projector", 1, <<>>, 1)), Expval(Obs("Hermitian", 1, <<>>, 1)),
     Expval(TensorOf(<<"PauliZ", "Projector">>)),
     Expval(TensorOf(<<"Hermitian", "PauliZ">>))}

MeasLists ==
    {<<>>, <<Expval(PauliZ), Expval(Hamiltonian(2))>>,
     <<Expval(TensorOf(<<"PauliZ", "PauliZ">>))>>,
     <<Expval(Obs("PauliX", 1, <<>>, 1))>>}
    \cup {<<m>> : m \in SupportedMeas}
    \cup {<<b>> : b \in UnsupportedMeas}
    \cup {<<Expval(PauliZ), b>> : b \in UnsupportedMeas}
    \cup {<<b, Expval(PauliZ)>> : b \in UnsupportedMeas}

\* the parameter positions owned by the operations ops[i], i \in S
OpPositions(ops, S) ==
    {p \in 0..(Len(OpOwners(ops)) - 1) :
        \E i \in S : /\ p >= Len(OpOwners(SubSeq(ops, 1, i - 1)))
                     /\ p < Len(OpOwners(SubSeq(ops, 1, i)))}

\* the parameter positions owned by observables
ObsPositions(ops, ms) ==
    {Len(OpOwners(ops)) + j - 1 : j \in 1..Len(ObsOwners(ms))}

\* trainable_params: the parameters of any set of operations, with or
\* without the observables' own parameters
TrainableChoices(ops, ms) ==
    {OpPositions(ops, S) \cup X :
        S \in SUBSET (1..Len(ops)), X \in {{}, ObsPositions(ops, ms)}}

\* tapes over every operation list, with few observables
Tapes ==
    UNION {UNION {{Tape(ops, ms, tr) : tr \in TrainableChoices(ops, ms)} :
                    ms \in MeasLists} :
             ops \in SeqsUpTo(TapeOps, MaxOps)}

\* tapes over every list of supported observables, with few operations
BatchTapes ==
    UNION {{Tape(<<Op("RX", "")>>, ms, {0}),
            Tape(<<Op("BasisState", "b1"), Op("RX", "")>>, ms, {0, 1})} :
             ms \in SeqsUpTo(SupportedMeas, MaxObs)}

\* the arguments of one adjoint_jacobian request
KwargsChoices ==
    {Kwargs("None", FALSE), Kwargs("None", TRUE), Kwargs("phi", FALSE)}

\* operation lists handed to apply
ApplyOps ==
    {Op("BasisState", "b1"), Op("QubitStateVector", "psi"), Op("PauliX", "")}

ApplyLists == SeqsUpTo(ApplyOps, MaxOps)

\* state vectors handed to QubitStateVector
StateVectors == {"psi", "psi_near", "psi_far", "psi_long"}

\* state preparations handed to apply as the first operation
PrepOps ==
    {Op("BasisState", "b1")} \cup {Op("QubitStateVector", v) : v \in StateVectors}

\* operation lists handed to apply when the device state is prepared:
\* gates, with or without a state preparation in front
PrepLists ==
    {head \o gates :
        head \in {<<>>} \cup {<<p>> : p \in PrepOps},
        gates \in SeqsUpTo({Op("PauliX", "")}, MaxOps - 1)}

\* widths of Hamiltonians around the dense limit
WideWires ==
    (HamiltonianDenseLimit - WireSpan)..(HamiltonianDenseLimit + WireSpan)

\* a Hamiltonian over nw wires
HamiltonianOn(nw) == Obs("Hamiltonian", 2, <<>>, nw)

\* observables handed to expval and var
EvalObs ==
    {PauliZ, Obs("PauliX", 1, <<>>, 1), Obs("Hermitian", 1, <<>>, 1),
     Obs("Projector", 1, <<>>, 1), Hamiltonian(2)}

---------------------------------------------------------------------------
(* The device as a state machine.                                          *)

NoCall ==
    [op |-> "none", status |-> "ok", at |-> "return", value |-> NoValue,
     tp |-> <<>>, windows |-> <<>>, rows |-> <<>>, ket |-> ZeroState,
     state |-> ZeroState, fault |-> 0, arg |-> <<>>]

\* __init__: the device in |0...0>, the 2-element default mirror
Constructed(c) ==
    /\ cfg = c
    /\ gpu = ZeroState
    /\ host = CreateBasisStateDefault
    /\ oplist = <<>>
    /\ ret = NoCall
    /\ log = <<>>
    /\ pre = [gpu |-> ZeroState, host |-> CreateBasisStateDefault]

\* a device on one GPU without batching, and a caller holding one tape
Init ==
    /\ \E w \in 1..MaxWires, s \in BOOLEAN, a \in BOOLEAN :
          Constructed(Config(w, s, a, BatchBool(FALSE), 1))
    /\ tape = Tape(<<Op("BasisState", "b1"), Op("RX", "")>>, <<Expval(PauliZ)>>, {1})
    /\ kwargs = Kwargs("None", FALSE)

\* a caller about to request a Jacobian: every batching policy and device
\* count with a tape of BatchTapes, or one unbatched device with any tape
\* of Tapes and any arguments
InitAdj ==
    \/ /\ \E a \in BOOLEAN, b \in BatchPolicies, d \in 1..MaxDevices :
              Constructed(Config(1, TRUE, a, b, d))
       /\ tape \in BatchTapes
       /\ kwargs = Kwargs("None", FALSE)
    \/ /\ \E a \in BOOLEAN : Constructed(Config(1, TRUE, a, BatchBool(FALSE), 1))
       /\ tape \in Tapes
       /\ kwargs \in KwargsChoices

Snapshot == [gpu |-> gpu, host |-> host]

\* dev.apply(operations)
Apply(ops) ==
    \E a \in {ApplyOutcome(ops, gpu, host, cfg)} :
        /\ Len(a.gpu.hist) <= MaxHist
        /\ gpu' = a.gpu
        /\ host' = a.host
        /\ oplist' = a.oplist
        /\ ret' = [NoCall EXCEPT !.op = "apply", !.status = a.status, !.arg = ops]
        /\ log' = a.log
        /\ pre' = Snapshot
        /\ UNCHANGED <<cfg, tape, kwargs>>

\* dev.reset()
Reset ==
    \E r \in {ResetOutcome(gpu, host, cfg)} :
        /\ gpu' = r.gpu
        /\ host' = r.host
        /\ ret' = [NoCall EXCEPT !.op = "reset"]
        /\ log' = <<"reset">>
        /\ pre' = Snapshot
        /\ oplist' = <<>>
        /\ UNCHANGED <<cfg, tape, kwargs>>

\* dev.expval(observable)
ExpvalCall(o) ==
    \E e \in {ExpvalOutcome(o, gpu, host, cfg)} :
        /\ Len(e.gpu.hist) <= MaxHist
        /\ gpu' = e.gpu
        /\ host' = e.host
        /\ ret' = [NoCall EXCEPT !.op = "expval", !.status = e.status,
                                 !.value = e.value, !.arg = o]
        /\ log' = <<>>
        /\ pre' = Snapshot
        /\ oplist' = <<>>
        /\ UNCHANGED <<cfg, tape, kwargs>>

\* dev.var(observable)
VarCall(o) ==
    \E e \in {VarOutcome(o, gpu, host, cfg)} :
        /\ Len(e.gpu.hist) <= MaxHist
        /\ gpu' = e.gpu
        /\ host' = e.host
        /\ ret' = [NoCall EXCEPT !.op = "var", !.status = e.status,
                                 !.value = e.value, !.arg = o]
        /\ log' = <<>>
        /\ pre' = Snapshot
        /\ oplist' = <<>>
        /\ UNCHANGED <<cfg, tape, kwargs>>

\* dev.adjoint_jacobian(tape, starting_state, use_device_state); the engine
\* may raise at any of its invocations
AdjointJacobian ==
    \E f \in 0..MaxFault :
    \E a \in {AdjointOutcome(tape, kwargs, gpu, host, cfg, f)} :
        /\ gpu' = a.gpu
        /\ host' = a.host
        /\ ret' = [op |-> "adjoint", status |-> a.status, at |-> a.at,
                   value |-> a.value, tp |-> a.tp, windows |-> a.windows,
                   rows |-> a.rows, ket |-> a.ket, state |-> a.state,
                   fault |-> IF a.at = "engine" THEN f ELSE 0, arg |-> <<>>]
        /\ log' = a.log
        /\ pre' = Snapshot
        /\ oplist' = <<>>
        /\ UNCHANGED <<cfg, tape, kwargs>>

\* dev.state
StateRead ==
    \E r \in {StateOutcome(gpu, host, cfg)} :
        /\ gpu' = gpu
        /\ host' = r.host
        /\ ret' = [NoCall EXCEPT !.op = "state", !.status = r.status,
                                 !.value = r.value, !.arg = ret.op]
        /\ log' = <<"syncD2H">>
        /\ pre' = Snapshot
        /\ oplist' = <<>>
        /\ UNCHANGED <<cfg, tape, kwargs>>

Next ==
    \/ \E ops \in ApplyLists : Apply(ops)
    \/ Reset
    \/ \E o \in EvalObs : ExpvalCall(o)
    \/ \E o \in EvalObs : VarCall(o)
    \/ AdjointJacobian

Spec == Init /\ [][Next]_vars

NextAdj == AdjointJacobian

SpecAdj == InitAdj /\ [][NextAdj]_vars

\* a device whose state is prepared, reset and read
InitState ==
    /\ \E w \in 1..MaxWires, s \in BOOLEAN :
          Constructed(Config(w, s, TRUE, BatchBool(FALSE), 1))
    /\ tape = Tape(<<>>, <<>>, {})
    /\ kwargs = Kwargs("None", FALSE)

NextState ==
    \/ \E ops \in PrepLists : Apply(ops)
    \/ Reset
    \/ StateRead

SpecState == InitState /\ [][NextState]_vars

\* a wide device asked for the expectation value of Hamiltonians
InitExpval ==
    /\ \E w \in WideWires, s \in BOOLEAN, a \in BOOLEAN :
          Constructed(Config(w, s, a, BatchBool(FALSE), 1))
    /\ tape = Tape(<<>>, <<>>, {})
    /\ kwargs = Kwargs("None", FALSE)

NextExpval ==
    \E nw \in 1..(HamiltonianDenseLimit + WireSpan) :
        nw <= cfg.wires /\ ExpvalCall(HamiltonianOn(nw))

SpecExpval == InitExpval /\ [][NextExpval]_vars

---------------------------------------------------------------------------
(* Properties.                                                             *)

AdjointReturned == ret.op = "adjoint" /\ ret.status = "ok" /\ tape.trainable # {}

\* the request got as far as the observable loop and the loop completed
LoopCompleted ==
    /\ ret.op = "adjoint"
    /\ tape.trainable # {}
    /\ ret.status \in {"ok", "ValueError"}
    /\ ~(Truthy(cfg.batch_obs) /\ BatchSize(cfg, Len(ObsSerialized(tape.meas))) = 0)

EngineInvoked == ret.op = "adjoint" /\ \E i \in 1..Len(log) : log[i] = "engine"

\* the call touched neither the device nor the mirror nor the engine
Untouched ==
    /\ gpu = pre.gpu
    /\ host = pre.host
    /\ \A i \in 1..Len(log) : log[i] = "warn"

\* C1: in capped mode the windows are contiguous, pairwise disjoint slices
\* of the serialised observables in their order, each observable lies in
\* exactly one window, every window but the last holds exactly k * D
\* observables and none holds more, and the engine rows are the windows'
\* rows concatenated in observable order.
C1_CappedWindows ==
    (LoopCompleted /\ cfg.batch_obs.kind = "int") =>
        LET n == Len(ObsSerialized(tape.meas))
            size == cfg.batch_obs.k * cfg.devices
            w == ret.windows
        IN  /\ Flatten(w) = [j \in 1..n |-> j]
            /\ \A i \in 1..Len(w) :
                  /\ Len(w[i]) >= 1
                  /\ Len(w[i]) <= size
                  /\ i < Len(w) => Len(w[i]) = size
                  /\ \A j \in 1..(Len(w[i]) - 1) : w[i][j + 1] = w[i][j] + 1
            /\ Len(ret.rows) = n
            /\ \A j \in 1..n :
                  ret.rows[j] = [q \in 1..Len(ret.tp) |-> {<<j, ret.tp[q]>>}]

C1_Witness ==
    /\ LoopCompleted
    /\ cfg.batch_obs.kind = "int"
    /\ ret.status = "ok"
    /\ Len(ret.windows) >= 2
    /\ Len(ret.windows[Len(ret.windows)]) < cfg.batch_obs.k * cfg.devices
    /\ cfg.devices > 1

ThreePolicies == {BatchBool(FALSE), BatchBool(TRUE), BatchInt(1)}

\* C2: for a fixed tape and device state the call ends the same way, with
\* the same Jacobian, under batch_obs = False, True and 1.
C2_BatchInvariance ==
    (ret.op = "adjoint" /\ ret.fault = 0 /\ cfg.batch_obs \in ThreePolicies) =>
        \A b \in ThreePolicies :
            \E o \in {AdjointOutcome(tape, kwargs, pre.gpu, pre.host,
                                     [cfg EXCEPT !.batch_obs = b], 0)} :
                o.status = ret.status /\ o.value = ret.value

\* C2, for tapes with at least one observable: the three policies agree.
C2_BatchInvarianceSomeObs ==
    (ret.op = "adjoint" /\ ret.fault = 0 /\ cfg.batch_obs \in ThreePolicies
        /\ tape.meas # <<>>) =>
        \A b \in ThreePolicies :
            \E o \in {AdjointOutcome(tape, kwargs, pre.gpu, pre.host,
                                     [cfg EXCEPT !.batch_obs = b], 0)} :
                o.status = ret.status /\ o.value = ret.value

\* positions of the parameters of the operations ops[i] that satisfy keep
PositionsWhere(ops, keep(_)) ==
    OpPositions(ops, {i \in 1..Len(ops) : keep(ops[i])})

NotPrep(op) == ~IsStatePrep(op)

\* C3: the returned Jacobian has one column per trainable parameter that is
\* no parameter of a state preparation.
C3_FilteredColumns ==
    AdjointReturned =>
        ret.value.shape[2] =
            Cardinality(tape.trainable \ PositionsWhere(tape.ops, IsStatePrep))

\* the shift C4 speaks of
LeadingPrepShift == IF tape.ops # <<>> /\ IsStatePrep(tape.ops[1]) THEN 1 ELSE 0

\* C4 as claimed: the positions handed to the engine are the sorted
\* trainable positions without those on state preparations, each lowered
\* by one exactly when the tape starts with a state preparation.
C4_PrepPositionsRemoved ==
    EngineInvoked =>
        ret.tp = Sorted({p - LeadingPrepShift :
                            p \in tape.trainable \ PositionsWhere(tape.ops, IsStatePrep)})

\* C4 as amended: the positions handed to the engine are the sorted
\* trainable positions owned by operations that are no state preparation
\* (positions on state preparations and on observables' own parameters are
\* removed), each lowered by one exactly when the tape starts with a state
\* preparation.
C4_NonOperationPositionsRemoved ==
    EngineInvoked =>
        ret.tp = Sorted({p - LeadingPrepShift :
                            p \in tape.trainable \cap PositionsWhere(tape.ops, NotPrep)})

C4_Witness ==
    /\ EngineInvoked
    /\ ret.status = "ok"
    /\ LeadingPrepShift = 1
    /\ tape.trainable \cap PositionsWhere(tape.ops, IsStatePrep) # {}
    /\ tape.trainable \cap ObsPositions(tape.ops, tape.meas) # {}
    /\ Len(ret.tp) >= 1
    /\ Len(ret.tp) < Cardinality(tape.trainable)

\* C5: the returned Jacobian has one row per logical observable, and row i
\* is the sum of the engine's rows offsets[i] .. offsets[i+1] - 1.
C5_TermAggregation ==
    AdjointReturned =>
        LET off == Offsets(tape.meas, 0)
        IN  /\ Len(ret.value.rows) = Len(tape.meas)
            /\ \A i \in 1..Len(tape.meas) :
                  ret.value.rows[i] =
                      [q \in 1..Len(ret.tp) |->
                          UNION {ret.rows[j][q] : j \in (off[i] + 1)..off[i + 1]}]

\* C5, when no trainable position was filtered out: rows are aggregated as
\* claimed.
C5_TermAggregationUnfiltered ==
    (AdjointReturned /\ Len(ret.tp) = Cardinality(tape.trainable)) =>
        LET off == Offsets(tape.meas, 0)
        IN  /\ Len(ret.value.rows) = Len(tape.meas)
            /\ \A i \in 1..Len(tape.meas) :
                  ret.value.rows[i] =
                      [q \in 1..Len(ret.tp) |->
                          UNION {ret.rows[j][q] : j \in (off[i] + 1)..off[i + 1]}]

\* C6: an apply that raises DeviceError leaves the device state as it was.
C6_RejectedBeforeStateChange ==
    (ret.op = "apply" /\ ret.status = "DeviceError") => gpu = pre.gpu

\* C7: apply leaves the caller's operation list as it was handed over.
C7_OperationListReadOnly ==
    ret.op = "apply" => oplist = ret.arg

\* C8: expval and var leave the device state as it was.
C8_EvaluationReadOnly ==
    ret.op \in {"expval", "var"} => gpu = pre.gpu

HasMultiParamNonRot(ops) ==
    \E i \in 1..Len(ops) : NumParams(ops[i]) > 1 /\ ops[i].name # "Rot"

\* C9 as claimed: every tape with an operation of several parameters that
\* is no Rot is rejected with QuantumFunctionError before any reset, replay
\* or engine invocation.
C9_MultiParamRejected ==
    (ret.op = "adjoint" /\ HasMultiParamNonRot(tape.ops)) =>
        ret.status = "QuantumFunctionError" /\ Untouched

\* C9 as amended: every tape with a non-empty trainable set and an
\* operation of several parameters that is no Rot is rejected with
\* QuantumFunctionError before any reset, replay or engine invocation.
C9_MultiParamRejectedWhenTrainable ==
    (ret.op = "adjoint" /\ HasMultiParamNonRot(tape.ops) /\ tape.trainable # {}) =>
        ret.status = "QuantumFunctionError" /\ Untouched

C9_Witness ==
    /\ ret.op = "adjoint"
    /\ HasMultiParamNonRot(tape.ops)
    /\ tape.trainable # {}
    /\ \A i \in 1..Len(tape.meas) :
          tape.meas[i].rt = "Expectation" /\ tape.meas[i].obs.name = "PauliZ"
    /\ tape.meas # <<>>
    /\ ret.status = "QuantumFunctionError"

\* the unsupported measurement requests C10 names
UnsupportedRequest(ms) ==
    \/ Len(ms) = 1 /\ ms[1].rt = "State"
    \/ /\ \E i \in 1..Len(ms) : ms[i].rt = "Expectation"
       /\ \E i \in 1..Len(ms) : ms[i].rt # "Expectation"
    \/ \E i \in 1..Len(ms) :
          /\ ms[i].rt = "Expectation"
          /\ \/ ms[i].obs.name \in {"Projector", "Hermitian"}
             \/ /\ ms[i].obs.name = "Tensor"
                /\ \E k \in 1..Len(ms[i].obs.parts) :
                      ms[i].obs.parts[k] \in {"Projector", "Hermitian"}

\* C10: a request for an unsupported measurement raises
\* QuantumFunctionError with the device state and the host mirror as they
\* were and without any engine invocation.
C10_UnsupportedMeasurementRejected ==
    (ret.op = "adjoint" /\ UnsupportedRequest(tape.meas)) =>
        ret.status = "QuantumFunctionError" /\ Untouched

C10_Witness ==
    /\ ret.op = "adjoint"
    /\ ret.status = "QuantumFunctionError"
    /\ UnsupportedRequest(tape.meas)
    /\ tape.meas[1].obs.name = "Tensor"
    /\ tape.trainable # {}
    /\ ~HasMultiParamNonRot(tape.ops)
    /\ \E i \in 1..Len(tape.ops) : tape.ops[i].name = "RX"


\* every measurement is an expectation value of an observable the adjoint
\* method takes
AllSupportedExpectations(ms) ==
    \A i \in 1..Len(ms) :
        /\ ms[i].rt = "Expectation"
        /\ ms[i].obs.name \notin {"Projector", "Hermitian"}
        /\ \A k \in 1..Len(ms[i].obs.parts) :
              ms[i].obs.parts[k] \notin {"Projector", "Hermitian"}

\* C11 as claimed: with an empty trainable set adjoint_jacobian returns the
\* zero result, and neither resets the device, nor replays the tape, nor
\* invokes the engine, nor changes the device state.
C11_EmptyTrainableShortCircuit ==
    (ret.op = "adjoint" /\ tape.trainable = {}) =>
        /\ ret.status = "ok"
        /\ ret.value = [shape |-> <<>>, rows |-> <<<<{}>>>>]
        /\ Untouched

\* C11 as amended: with an empty trainable set and measurements that are
\* all expectation values of supported observables, adjoint_jacobian
\* returns the zero result, and neither resets the device, nor replays the
\* tape, nor invokes the engine, nor changes the device state.
C11_ShortCircuitAfterMeasurementCheck ==
    (ret.op = "adjoint" /\ tape.trainable = {}
        /\ AllSupportedExpectations(tape.meas)) =>
        /\ ret.status = "ok"
        /\ ret.value = [shape |-> <<>>, rows |-> <<<<{}>>>>]
        /\ Untouched

C11_Witness ==
    /\ ret.op = "adjoint"
    /\ tape.trainable = {}
    /\ AllSupportedExpectations(tape.meas)
    /\ tape.meas # <<>>
    /\ \E i \in 1..Len(tape.ops) : tape.ops[i].name = "RX"
    /\ kwargs = Kwargs("None", FALSE)
    /\ ret.status = "ok"

EngineEvents == {i \in 1..Len(log) : log[i] = "engine"}

\* C12: when a window's engine invocation raises during a batched request,
\* the request ends with that error and no Jacobian, the rows of earlier
\* windows stay behind, and no later window is dispatched.
C12_WindowFailureAborts ==
    (ret.op = "adjoint" /\ Truthy(cfg.batch_obs) /\ ret.fault >= 1) =>
        /\ ret.status = "EngineError"
        /\ ret.value = [shape |-> <<>>, rows |-> <<>>]
        /\ Cardinality(EngineEvents) = ret.fault
        /\ Len(ret.windows) = ret.fault

C12_Witness ==
    /\ ret.op = "adjoint"
    /\ Truthy(cfg.batch_obs)
    /\ ret.fault = 2
    /\ Len(ret.rows) >= 1
    /\ Len(ObsSerialized(tape.meas)) > 2 * BatchSize(cfg, Len(ObsSerialized(tape.meas)))

\* C13: with a starting_state the engine differentiates that state.
C13_StartingStateDifferentiated ==
    (EngineInvoked /\ ret.status = "ok" /\ kwargs.starting_state # "None") =>
        ret.state = [init |-> kwargs.starting_state, hist |-> <<>>]

\* C15: on a device with shots the request warns and otherwise ends as it
\* does without shots: same validation, same state handed to the engine,
\* same result.
C15_ShotsOnlyWarn ==
    (ret.op = "adjoint" /\ ~cfg.analytic) =>
        /\ log # <<>> /\ log[1] = "warn"
        /\ \E o \in {AdjointOutcome(tape, kwargs, pre.gpu, pre.host,
                                    [cfg EXCEPT !.analytic = TRUE], ret.fault)} :
              /\ o.status = ret.status
              /\ o.value = ret.value
              /\ o.status = "ok" => o.state = ret.state

\* C15, for requests that skip the replay or measure PauliZ only: the
\* request ends as it does without shots.
C15_ShotsOnlyWarnWithoutRotation ==
    (ret.op = "adjoint" /\ ~cfg.analytic
        /\ \/ kwargs # Kwargs("None", FALSE)
           \/ \A i \in 1..Len(tape.meas) : tape.meas[i].obs.name = "PauliZ") =>
        /\ log # <<>> /\ log[1] = "warn"
        /\ \E o \in {AdjointOutcome(tape, kwargs, pre.gpu, pre.host,
                                    [cfg EXCEPT !.analytic = TRUE], ret.fault)} :
              /\ o.status = ret.status
              /\ o.value = ret.value
              /\ o.status = "ok" => o.state = ret.state

\* C17: with a non-empty trainable set the observable-window loop ends
\* without raising, for every batching setting and observable count.
C17_WindowLoopCompletes ==
    (ret.op = "adjoint" /\ tape.trainable # {}) => ret.at # "loop"

\* C17, the one case in which the loop raises: batch_obs = True and no
\* observable.
C17_WindowLoopRaisesOnlyWhenEmpty ==
    (ret.op = "adjoint" /\ ret.at = "loop") =>
        cfg.batch_obs = BatchBool(TRUE) /\ tape.meas = <<>>


\* the first element of the list handed to apply is a state vector with a
\* shape other than (2**wires,) and (batch, 2**wires), or with a norm that
\* is off by more than `most`
InadmissibleVector(most) ==
    /\ ret.op = "apply"
    /\ ret.arg # <<>>
    /\ ret.arg[1].name = "QubitStateVector"
    /\ \/ \A b \in 1..3 :
             VectorShape(ret.arg[1].arg, 2 ^ cfg.wires)
                 \notin {<<2 ^ cfg.wires>>, <<b, 2 ^ cfg.wires>>}
       \/ NormDeviation(ret.arg[1].arg) > most

\* C14: a state vector of another shape than (2**wires,) and
\* (batch, 2**wires), or with a norm off by more than the tolerance 1e-6,
\* is rejected with ValueError, the host mirror and the device state left
\* as they were.
C14_InvalidStateVectorRejected ==
    InadmissibleVector(10) =>
        ret.status = "ValueError" /\ gpu = pre.gpu /\ host = pre.host

\* C14, with the tolerance the norm test has in effect (1e-6 + 1e-5): such
\* a state vector is rejected with ValueError, mirror and device state
\* left as they were.
C14_FarOffStateVectorRejected ==
    InadmissibleVector(110) =>
        ret.status = "ValueError" /\ gpu = pre.gpu /\ host = pre.host

\* C16: in analytic mode expval of a Hamiltonian over w wires takes the
\* dense contraction when w <= 13 and the Pauli-word decomposition when
\* w > 13, and one of the two for every w.
C16_HamiltonianCrossover ==
    (ret.op = "expval" /\ ret.arg.name = "Hamiltonian" /\ cfg.analytic) =>
        /\ ret.status = "ok"
        /\ ret.value \in {"dense", "pauli_words"}
        /\ ret.arg.nw <= 13 => ret.value = "dense"
        /\ ret.arg.nw > 13 => ret.value = "pauli_words"
        /\ gpu = pre.gpu

C16_Witness ==
    /\ ret.op = "expval"
    /\ cfg.analytic
    /\ ret.arg.name = "Hamiltonian"
    /\ ret.arg.nw = 13
    /\ ret.value = "dense"
    /\ cfg.wires > 13

\* C18: reading the state property returns 2**n amplitudes equal to the
\* device state at that moment, the mirror refreshed from the device; read
\* directly after construction or reset it is the all-zero basis state.
C18_StateReadsDevice ==
    ret.op = "state" =>
        /\ ret.status = "ok"
        /\ ret.value.shape = <<2 ^ cfg.wires>>
        /\ ret.value.val = gpu
        /\ gpu = pre.gpu
        /\ host.val = gpu
        /\ ret.arg \in {"none", "reset"} => ret.value.val = [init |-> "b0", hist |-> <<>>]

C18_Witness ==
    /\ ret.op = "state"
    /\ ret.status = "ok"
    /\ ~cfg.sync
    /\ cfg.wires >= 2
    /\ gpu.init = "psi"
    /\ gpu.hist # <<>>
    /\ pre.host.val # gpu

====
